---- MODULE Spec2Model ----
(***************************************************************************)
(* magic-prompt: the command line entry point run_cli with its one-shot    *)
(* (headless) enrichment, the configuration store, the streaming           *)
(* completion client, and the debounce/cancellation orchestrator of the    *)
(* interactive mode.                                                       *)
(*                                                                         *)
(* Text is a sequence of one-character strings.  An absent string          *)
(* argument (Python None) is the empty string "", which Python treats as   *)
(* falsy exactly like None.  An absent integer is the empty sequence.      *)
(***************************************************************************)
EXTENDS Integers, Sequences, FiniteSets, TLC

\* ------------------------------------------------------------------ bounds
\* Most raw chunks the provider sends on one completion stream.
MaxChunks == 2
\* Most InputChanged events of one interactive run.
MaxInputs == 2
\* Most fragments one Enrichment Session's stream produces.
MaxFragments == 2

\* ---------------------------------------------------------------- constants
\* Range of the debounce interval, in milliseconds.
MinDebounceMs == 100
MaxDebounceMs == 5000

\* ------------------------------------------------------------ input domains
\* Directories that exist on the filesystem (Path(d).is_dir()).
ExistingDirs == {"/proj", "/saved", "/home/u/proj", "/home/u/env", "/cwd"}

IsDir(d) == d \in ExistingDirs

\* os.path.expanduser: a leading ~ becomes the home directory.
ExpandUser(d) ==
    CASE d = "~/proj" -> "/home/u/proj"
      [] d = "~/env" -> "/home/u/env"
      [] OTHER -> d

\* Values of -d/--directory and of --save-dir ("" = not given).
DirArgs == {"", "/proj", "/nope"}
SaveDirArgs == {"", "~/proj", "/nope"}

\* Values of --debounce (<<>> = not given).
DebounceArgs == {<<>>, <<-5>>, <<0>>, <<300>>, <<9000>>}

\* Positional prompt words (nargs="*").
PromptArgs == {<< >>, << <<>> >>, << <<"a">>, <<"b">> >>}

\* Standard input: a terminal, or a pipe holding some text.
StdinStates ==
    { [tty |-> TRUE, text |-> <<>>],
      [tty |-> FALSE, text |-> <<" ">>],
      [tty |-> FALSE, text |-> <<" ", "a", " ">>] }

\* The parsed command line.
ArgSpace ==
    [ show_config : BOOLEAN, save_dir : SaveDirArgs, debounce : DebounceArgs,
      tui : BOOLEAN, prompt : PromptArgs, quiet : BOOLEAN, directory : DirArgs ]

\* The configuration document config.json: absent, unreadable (open fails
\* with OSError), readable but not UTF-8, not JSON, a JSON array, or a JSON
\* object with the keys working_directory (wd, "" = absent) and
\* debounce_ms (db, <<>> = absent).
ConfigDoc(kind, wd, db) == [kind |-> kind, wd |-> wd, db |-> db]

InitialConfigDocs ==
    { ConfigDoc(k, "", <<>>) : k \in {"missing", "unreadable", "notutf8", "notjson", "array"} }
    \cup { ConfigDoc("object", wd, <<>>) : wd \in {"", "/saved", "/gone"} }

\* MAGIC_PROMPT_DIR in the environment ("" = unset).
EnvDirs == {"", "~/env", "/nope"}

\* The raw chunks of the provider's stream: no choices, choices with an
\* empty or None delta content, or choices with text.
RawChunk(hasChoices, content) == [choices |-> hasChoices, content |-> content]

RawChunks ==
    { RawChunk(FALSE, <<>>), RawChunk(TRUE, <<>>),
      RawChunk(TRUE, <<"a">>), RawChunk(TRUE, <<"b">>) }

\* ------------------------------------------------------------ pure helpers
RECURSIVE Join(_)
\* " ".join(words)
Join(words) ==
    IF words = <<>> THEN <<>>
    ELSE IF Len(words) = 1 THEN Head(words)
    ELSE Head(words) \o <<" ">> \o Join(Tail(words))

RECURSIVE LStrip(_)
LStrip(s) == IF s # <<>> /\ Head(s) = " " THEN LStrip(Tail(s)) ELSE s

RECURSIVE RStrip(_)
RStrip(s) ==
    IF s # <<>> /\ s[Len(s)] = " " THEN RStrip(SubSeq(s, 1, Len(s) - 1)) ELSE s

\* str.strip()
Strip(s) == RStrip(LStrip(s))

RECURSIVE Concat(_)
\* The in-order concatenation of a sequence of fragments.
Concat(frags) == IF frags = <<>> THEN <<>> ELSE Head(frags) \o Concat(Tail(frags))

\* ------------------------------------------------------- configuration store
Returned(v) == [raised |-> FALSE, value |-> v]
Raised(exc) == [raised |-> TRUE, value |-> exc]

\* The Python value json.load gives; shape "dict" or "list".
PyValue(shape, wd, db) == [shape |-> shape, wd |-> wd, db |-> db]
EmptyDict == PyValue("dict", "", <<>>)

\* load_config: a missing document, an OSError and a JSONDecodeError give {};
\* a document that is not UTF-8 raises UnicodeDecodeError, which the handler
\* does not name; any JSON value is returned as it is.
LoadConfig(doc) ==
    CASE doc.kind \in {"missing", "unreadable", "notjson"} -> Returned(EmptyDict)
      [] doc.kind = "notutf8" -> Raised("UnicodeDecodeError")
      [] doc.kind = "array" -> Returned(PyValue("list", "", <<>>))
      [] OTHER -> Returned(PyValue("dict", doc.wd, doc.db))

\* get_saved_directory: config.get on a value that is no dict raises
\* AttributeError; a saved directory that is no directory gives None ("").
GetSavedDirectory(doc) ==
    LET config == LoadConfig(doc) IN
    IF config.raised THEN config
    ELSE IF config.value.shape # "dict" THEN Raised("AttributeError")
    ELSE IF config.value.wd # "" /\ IsDir(config.value.wd) THEN Returned(config.value.wd)
    ELSE Returned("")

\* save_config: whether open(path, "w") can succeed; an unreadable document
\* may or may not be writable.
WriteOutcomes(doc) == IF doc.kind = "unreadable" THEN {TRUE, FALSE} ELSE {TRUE}

\* save_directory: load, set working_directory, write.  The directories of
\* the model are absolute and free of links, so Path.resolve keeps them.
SaveDirectory(doc, dir, writable) ==
    LET config == LoadConfig(doc) IN
    IF config.raised THEN config
    ELSE IF config.value.shape # "dict" THEN Raised("TypeError")
    ELSE IF ~writable THEN Raised("OSError")
    ELSE Returned(ConfigDoc("object", dir, config.value.db))

\* The clamp of the debounce interval to [100, 5000].
ClampDebounce(ms) ==
    IF ms < MinDebounceMs THEN MinDebounceMs
    ELSE IF ms > MaxDebounceMs THEN MaxDebounceMs ELSE ms

\* set_debounce_ms: load, set debounce_ms to the clamped value, write.
SetDebounceMs(doc, ms, writable) ==
    LET config == LoadConfig(doc) IN
    IF config.raised THEN config
    ELSE IF config.value.shape # "dict" THEN Raised("TypeError")
    ELSE IF ~writable THEN Raised("OSError")
    ELSE Returned(ConfigDoc("object", config.value.wd, <<ClampDebounce(ms)>>))

\* get_working_directory: the saved directory, else MAGIC_PROMPT_DIR when it
\* is a directory, else the current directory.
GetWorkingDirectory(doc, envDir) ==
    LET saved == GetSavedDirectory(doc) IN
    IF saved.raised THEN saved
    ELSE IF saved.value # "" THEN saved
    ELSE IF envDir # "" /\ IsDir(ExpandUser(envDir)) THEN Returned(ExpandUser(envDir))
    ELSE Returned("/cwd")

\* get_prompt_from_input: the joined positional words, else the stripped
\* piped input, else None ("" here: the caller only tests `not prompt`).
GetPromptFromInput(a, in) ==
    IF a.prompt # <<>> THEN Join(a.prompt)
    ELSE IF ~in.tty THEN Strip(in.text)
    ELSE <<>>

\* ----------------------------------------------------------------- state
VARIABLES
    pc,                 \* position of run_cli / run_headless ("off": not run)
    args,               \* the parsed command line
    stdin,              \* standard input
    configDoc,          \* the configuration document on disk
    exitStatus,         \* exit status of the process, -1 while it runs
    cause,              \* why the run ended ("" while it runs)
    out,                \* what was printed, in order: [fd, msg, text]
    reportedDebounce,   \* the debounce value printed to the user
    prompt,             \* the prompt of the one-shot run
    directory,          \* the directory of the one-shot run
    scanned,            \* the directories scan_project was called on
    completionRequests, \* calls of chat.completions.create
    rawHistory,         \* the raw chunks the provider has sent
    yielded,            \* the fragments stream_completion has yielded
    result,             \* run_headless's accumulated result
    clipOutcome,        \* outcome of the clipboard step ("" = not reached)
    clipboard,          \* the texts handed to pbcopy
    tuiLaunched,        \* calls of tui_main
    orchState,          \* the orchestrator's state ("Off": not running)
    current_request_id, \* id of the latest InputChanged
    pending_prompt,     \* latest raw input
    active_session,     \* id of the dispatched session, 0 = none
    timers,             \* request ids whose quiet period is still running
    sessions,           \* the Enrichment Sessions, by request id
    channel,            \* per session, its events not yet processed
    display,            \* the updates made to the display, in order
    dispatchLog         \* the sessions started, in order

cliVars ==
    << pc, args, stdin, configDoc, exitStatus, cause, out, reportedDebounce,
       prompt, directory, scanned, completionRequests, rawHistory, yielded,
       result, clipOutcome, clipboard, tuiLaunched >>

orchVars ==
    << orchState, current_request_id, pending_prompt, active_session, timers,
       sessions, channel, display, dispatchLog >>

vars == << cliVars, orchVars >>

Line(fd, msg, text) == [fd |-> fd, msg |-> msg, text |-> text]

\* The state before run_cli has done anything.
CliFresh ==
    /\ exitStatus = -1
    /\ cause = ""
    /\ out = <<>>
    /\ reportedDebounce = <<>>
    /\ prompt = <<>>
    /\ directory = ""
    /\ scanned = <<>>
    /\ completionRequests = 0
    /\ rawHistory = <<>>
    /\ yielded = <<>>
    /\ result = <<>>
    /\ clipOutcome = ""
    /\ clipboard = <<>>
    /\ tuiLaunched = 0

\* An Enrichment Session that was never created.
NoSession ==
    [status |-> "None", cancelRequested |-> FALSE, reported |-> FALSE,
     prompt |-> <<>>, produced |-> <<>>]

RequestIds == 1..MaxInputs

\* The orchestrator's state before any input.
OrchFresh ==
    /\ current_request_id = 0
    /\ pending_prompt = <<>>
    /\ active_session = 0
    /\ timers = {}
    /\ sessions = [r \in RequestIds |-> NoSession]
    /\ channel = [r \in RequestIds |-> <<>>]
    /\ display = <<>>
    /\ dispatchLog = <<>>

InitCli ==
    /\ pc = "start"
    /\ orchState = "Off"
    /\ OrchFresh
    /\ args \in ArgSpace
    /\ stdin \in StdinStates
    /\ configDoc \in InitialConfigDocs
    /\ CliFresh

\* ------------------------------------------------------------ process exit
\* run_cli returns: the process ends with status 0.
Return(why) ==
    /\ pc' = "done"
    /\ exitStatus' = 0
    /\ cause' = why

\* sys.exit(code) outside any handler that catches it.
SysExit(code, why) ==
    /\ pc' = "done"
    /\ exitStatus' = code
    /\ cause' = why

\* An exception no handler catches: the interpreter prints the traceback
\* and ends with status 1.
Uncaught == SysExit(1, "uncaught")

\* Mutant: the KeyboardInterrupt handler prints and falls through.
HandlerStatusNoCancelExit(exc, code) ==
    CASE exc = "KeyboardInterrupt" -> 0
      [] exc = "Exception" -> 1
      [] OTHER -> code

\* The handlers around the one-shot run: KeyboardInterrupt gives 130, any
\* Exception gives 1, and SystemExit (no Exception) passes with its code.
HandlerStatus(exc, code) ==
    CASE exc = "KeyboardInterrupt" -> 130
      [] exc = "Exception" -> 1
      [] OTHER -> code

HandlerLine(exc) ==
    CASE exc = "KeyboardInterrupt" -> << Line("stderr", "Cancelled", <<>>) >>
      [] exc = "Exception" -> << Line("stderr", "Error", <<>>) >>
      [] OTHER -> <<>>

\* An exception raised inside the try block of the one-shot run, after
\* `printed` was printed.
RaiseInTry(exc, code, why, printed) ==
    /\ pc' = "done"
    /\ exitStatus' = HandlerStatus(exc, code)
    /\ cause' = why
    /\ out' = out \o printed \o HandlerLine(exc)

\* ---------------------------------------------------------------- run_cli
runVars == << prompt, directory, scanned, completionRequests, rawHistory,
              yielded, result, clipOutcome, clipboard >>

\* --show-config: print the configuration and return.
ShowConfig ==
    /\ pc = "start"
    /\ args.show_config
    /\ LET config == LoadConfig(configDoc) IN
       IF config.raised
       THEN Uncaught /\ UNCHANGED out
       ELSE /\ Return("config")
            /\ out' = out \o << Line("stdout", "ConfigFile", <<>>),
                                Line("stdout", "Config", <<>>) >>
    /\ UNCHANGED orchVars
    /\ UNCHANGED << args, stdin, configDoc, reportedDebounce, runVars, tuiLaunched >>

\* --save-dir DIR: save the directory and return.
SaveDir ==
    /\ pc = "start"
    /\ ~args.show_config
    /\ args.save_dir # ""
    /\ LET dir == ExpandUser(args.save_dir) IN
       IF ~IsDir(dir)
       THEN /\ SysExit(1, "baddir")
            /\ out' = Append(out, Line("stderr", "Error", <<>>))
            /\ UNCHANGED configDoc
       ELSE \E writable \in WriteOutcomes(configDoc) :
              LET saved == SaveDirectory(configDoc, dir, writable) IN
              IF saved.raised
              THEN Uncaught /\ UNCHANGED << out, configDoc >>
              ELSE /\ Return("config")
                   /\ configDoc' = saved.value
                   /\ out' = Append(out, Line("stdout", "SavedDirectory", <<>>))
    /\ UNCHANGED orchVars
    /\ UNCHANGED << args, stdin, reportedDebounce, runVars, tuiLaunched >>

\* Mutant: the return does not look at the positional prompt.
DebounceReturnsWithoutTui(a) == ~a.tui

\* Whether run_cli returns right after saving the debounce value.
DebounceReturns(a) == ~a.tui /\ a.prompt = <<>>

\* --debounce MS: save the value, print it, and return when there is
\* neither --tui nor a positional prompt.
SetDebounce ==
    /\ pc = "start"
    /\ ~args.show_config
    /\ args.save_dir = ""
    /\ args.debounce # <<>>
    /\ \E writable \in WriteOutcomes(configDoc) :
         LET saved == SetDebounceMs(configDoc, args.debounce[1], writable) IN
         IF saved.raised
         THEN Uncaught /\ UNCHANGED << out, configDoc, reportedDebounce >>
         ELSE /\ configDoc' = saved.value
              /\ reportedDebounce' = args.debounce
              /\ out' = Append(out, Line("stdout", "DebounceSet", <<>>))
              /\ IF DebounceReturns(args)
                 THEN Return("config")
                 ELSE pc' = "mode" /\ UNCHANGED << exitStatus, cause >>
    /\ UNCHANGED orchVars
    /\ UNCHANGED << args, stdin, runVars, tuiLaunched >>

\* No configuration flag: go on to the mode selection.
NoConfigFlag ==
    /\ pc = "start"
    /\ ~args.show_config
    /\ args.save_dir = ""
    /\ args.debounce = <<>>
    /\ pc' = "mode"
    /\ UNCHANGED orchVars
    /\ UNCHANGED << args, stdin, configDoc, exitStatus, cause, out,
                    reportedDebounce, runVars, tuiLaunched >>

\* --tui: launch the interactive mode.
LaunchTui ==
    /\ pc = "mode"
    /\ args.tui
    /\ tuiLaunched' = tuiLaunched + 1
    /\ Return("tui")
    /\ UNCHANGED orchVars
    /\ UNCHANGED << args, stdin, configDoc, out, reportedDebounce, runVars >>

\* No prompt on the command line or on standard input: launch the TUI.
NoPromptTui ==
    /\ pc = "mode"
    /\ ~args.tui
    /\ GetPromptFromInput(args, stdin) = <<>>
    /\ tuiLaunched' = tuiLaunched + 1
    /\ Return("tui")
    /\ UNCHANGED orchVars
    /\ UNCHANGED << args, stdin, configDoc, out, reportedDebounce, runVars >>

\* A prompt: take the directory from -d, else from get_working_directory,
\* and check that it is one.
ResolveDirectory ==
    /\ pc = "mode"
    /\ ~args.tui
    /\ GetPromptFromInput(args, stdin) # <<>>
    /\ prompt' = GetPromptFromInput(args, stdin)
    /\ \E envDir \in EnvDirs :
         LET wd == IF args.directory # "" THEN Returned(args.directory)
                   ELSE GetWorkingDirectory(configDoc, envDir) IN
         IF wd.raised
         THEN Uncaught /\ UNCHANGED << out, directory >>
         ELSE /\ directory' = wd.value
              /\ IF ~IsDir(wd.value)
                 THEN /\ SysExit(1, "baddir")
                      /\ out' = Append(out, Line("stderr", "Error", <<>>))
                 ELSE /\ pc' = "headless"
                      /\ UNCHANGED << exitStatus, cause, out >>
    /\ UNCHANGED orchVars
    /\ UNCHANGED << args, stdin, configDoc, reportedDebounce, scanned,
                    completionRequests, rawHistory, yielded, result,
                    clipOutcome, clipboard, tuiLaunched >>

\* ------------------------------------------------------------ run_headless
\* What is printed only when --quiet is absent.
Unless(quiet, lines) == IF quiet THEN <<>> ELSE lines

\* The exception a failing step raises: an error or the user's interrupt.
Failures == {"Exception", "KeyboardInterrupt"}

WhyOf(exc) == IF exc = "KeyboardInterrupt" THEN "interrupt" ELSE "provider"

\* scan_project(directory): the scan succeeds or raises.
Scan ==
    /\ pc = "headless"
    /\ scanned' = Append(scanned, directory)
    /\ \/ /\ pc' = "credential"
          /\ out' = out \o Unless(args.quiet, << Line("stderr", "Scanning", <<>>),
                                                Line("stderr", "Found", <<>>) >>)
          /\ UNCHANGED << exitStatus, cause >>
       \/ \E exc \in Failures :
            RaiseInTry(exc, 1, WhyOf(exc),
                       Unless(args.quiet, << Line("stderr", "Scanning", <<>>) >>))
    /\ UNCHANGED orchVars
    /\ UNCHANGED << args, stdin, configDoc, reportedDebounce, prompt, directory,
                    completionRequests, rawHistory, yielded, result,
                    clipOutcome, clipboard, tuiLaunched >>

\* os.getenv("GROQ_API_KEY"): without a key, print the error and sys.exit(1).
Credential ==
    /\ pc = "credential"
    /\ \E key \in {"", "gsk"} :
         IF key = ""
         THEN RaiseInTry("SystemExit", 1, "nokey",
                         << Line("stderr", "ErrorNoKey", <<>>) >>)
         ELSE /\ pc' = "enrich"
              /\ out' = out \o Unless(args.quiet, << Line("stderr", "Enriching", <<>>) >>)
              /\ UNCHANGED << exitStatus, cause >>
    /\ UNCHANGED orchVars
    /\ UNCHANGED << args, stdin, configDoc, reportedDebounce, runVars, tuiLaunched >>

\* Mutant: the request is made twice.
OpenCompletionTwice(n) == n + 2

\* The request count after one more call of chat.completions.create.
OpenCompletion(n) == n + 1

\* The first step of `async for chunk in enricher.enrich(prompt)`:
\* stream_completion calls chat.completions.create, which opens the stream
\* or raises.
OpenStream ==
    /\ pc = "enrich"
    /\ completionRequests' = OpenCompletion(completionRequests)
    /\ \/ /\ pc' = "stream"
          /\ UNCHANGED << exitStatus, cause, out >>
       \/ \E exc \in Failures : RaiseInTry(exc, 1, WhyOf(exc), <<>>)
    /\ UNCHANGED orchVars
    /\ UNCHANGED << args, stdin, configDoc, reportedDebounce, prompt, directory,
                    scanned, rawHistory, yielded, result, clipOutcome,
                    clipboard, tuiLaunched >>

\* stream_completion yields a raw chunk's content when the chunk has
\* choices and the content is neither None nor empty.
Yields(raw) == raw.choices /\ raw.content # <<>>

\* Mutant: the chunk goes in front of the result.
AccumulateInFront(acc, chunk) == chunk \o acc

\* result += chunk
Accumulate(acc, chunk) == acc \o chunk

\* The provider sends one more raw chunk; a yielded fragment is added to
\* the result and, without --quiet, printed at once.
StreamChunk ==
    /\ pc = "stream"
    /\ Len(rawHistory) < MaxChunks
    /\ \E raw \in RawChunks :
         /\ rawHistory' = Append(rawHistory, raw)
         /\ IF Yields(raw)
            THEN /\ yielded' = Append(yielded, raw.content)
                 /\ result' = Accumulate(result, raw.content)
                 /\ out' = out \o Unless(args.quiet, << Line("stdout", "Chunk", raw.content) >>)
            ELSE UNCHANGED << yielded, result, out >>
    /\ UNCHANGED orchVars
    /\ UNCHANGED << pc, args, stdin, configDoc, exitStatus, cause,
                    reportedDebounce, prompt, directory, scanned,
                    completionRequests, clipOutcome, clipboard, tuiLaunched >>

\* The stream raises (provider error) or the user interrupts it.
StreamFail ==
    /\ pc = "stream"
    /\ \E exc \in Failures : RaiseInTry(exc, 1, WhyOf(exc), <<>>)
    /\ UNCHANGED orchVars
    /\ UNCHANGED << args, stdin, configDoc, reportedDebounce, runVars, tuiLaunched >>

\* The stream is exhausted: run_headless returns the result; with --quiet
\* run_cli prints it, without it run_headless has printed a newline.
StreamEnd ==
    /\ pc = "stream"
    /\ pc' = "clipboard"
    /\ out' = Append(out, IF args.quiet THEN Line("stdout", "Result", result)
                          ELSE Line("stdout", "Newline", <<>>))
    /\ UNCHANGED orchVars
    /\ UNCHANGED << args, stdin, configDoc, exitStatus, cause, reportedDebounce,
                    runVars, tuiLaunched >>

\* Whether the one-shot run copies the result to the clipboard.
CopiesToClipboard(quiet) == TRUE

\* Mutant: the clipboard step has no handler of its own.
ClipboardUnguarded(outcome) ==
    CASE outcome = "interrupted" -> "KeyboardInterrupt"
      [] outcome = "failed" -> "Exception"
      [] OTHER -> ""

\* The exception that leaves the clipboard step: `except Exception` catches
\* a failure of pbcopy, never the user's interrupt.
ClipboardPropagates(outcome) ==
    IF outcome = "interrupted" THEN "KeyboardInterrupt" ELSE ""

\* "Always copy to clipboard in headless mode".
Clipboard ==
    /\ pc = "clipboard"
    /\ IF ~CopiesToClipboard(args.quiet)
       THEN /\ Return("ok")
            /\ UNCHANGED << out, clipOutcome, clipboard >>
       ELSE \E outcome \in {"ok", "failed", "interrupted"} :
              /\ clipOutcome' = outcome
              /\ clipboard' = IF outcome = "ok" THEN Append(clipboard, result)
                              ELSE clipboard
              /\ IF ClipboardPropagates(outcome) # ""
                 THEN RaiseInTry(ClipboardPropagates(outcome), 1,
                                 IF outcome = "failed" THEN "clipboard" ELSE "interrupt",
                                 <<>>)
                 ELSE /\ Return("ok")
                      /\ out' = out \o Unless(args.quiet,
                                    << Line("stderr",
                                            IF outcome = "ok" THEN "Copied" ELSE "Note",
                                            <<>>) >>)
    /\ UNCHANGED orchVars
    /\ UNCHANGED << args, stdin, configDoc, reportedDebounce, prompt, directory,
                    scanned, completionRequests, rawHistory, yielded, result,
                    tuiLaunched >>

NextCli ==
    \/ ShowConfig
    \/ SaveDir
    \/ SetDebounce
    \/ NoConfigFlag
    \/ LaunchTui
    \/ NoPromptTui
    \/ ResolveDirectory
    \/ Scan
    \/ Credential
    \/ OpenStream
    \/ StreamChunk
    \/ StreamFail
    \/ StreamEnd
    \/ Clipboard

\* ------------------------------------- debounce/cancellation orchestrator
\* The interactive mode, entered from a terminal without arguments.
InitOrch ==
    /\ pc = "off"
    /\ args = [show_config |-> FALSE, save_dir |-> "", debounce |-> <<>>,
               tui |-> FALSE, prompt |-> <<>>, quiet |-> FALSE, directory |-> ""]
    /\ stdin = [tty |-> TRUE, text |-> <<>>]
    /\ configDoc = ConfigDoc("missing", "", <<>>)
    /\ CliFresh
    /\ orchState = "Idle"
    /\ OrchFresh

\* The text the user has typed at the n-th InputChanged: one more character
\* each time, after a leading blank.
Typed == <<" ", "a", "b", "c", "d", "e">>
InputText(n) == SubSeq(Typed, 1, n + 1)

\* The k-th fragment of the stream of request r: two characters that tell
\* the streams and the positions apart.
FragmentOf(r, k) == << Typed[r + 1], Typed[k + 1] >>

Event(kind, text) == [kind |-> kind, text |-> text]

\* An update of the display: the session it comes from, the current
\* request id when it was made, its kind and its text.
Update(rid, cur, kind, text) == [rid |-> rid, cur |-> cur, kind |-> kind, text |-> text]

\* The sessions the orchestrator takes to be running: started, not asked
\* to cancel, and no terminal event of theirs processed.
Live ==
    { r \in RequestIds :
        /\ sessions[r].status # "None"
        /\ ~sessions[r].cancelRequested
        /\ ~sessions[r].reported }

\* cancel() on the dispatched session, when there is one.
CancelActive(ss, state, active) ==
    IF state = "Dispatched" /\ active # 0
    THEN [ss EXCEPT ![active].cancelRequested = TRUE]
    ELSE ss

\* Rule 1: InputChanged(text).
InputChanged ==
    /\ orchState # "Off"
    /\ current_request_id < MaxInputs
    /\ LET text == InputText(current_request_id + 1) IN
         /\ pending_prompt' = text
         /\ current_request_id' = current_request_id + 1
         /\ timers' = timers \cup {current_request_id + 1}
         /\ sessions' = CancelActive(sessions, orchState, active_session)
         /\ active_session' = 0
         /\ orchState' = "AwaitingQuietPeriod"
    /\ UNCHANGED << channel, display, dispatchLog >>
    /\ UNCHANGED cliVars

\* Whether the quiet period that has elapsed is the one of the latest input.
TimerCurrent(t, cur) == t = cur

\* The user message of the composed prompt: the raw prompt, trimmed.
Compose(raw) == Strip(raw)

\* Rule 2: QuietPeriodElapsed.  The quiet period of request t has elapsed;
\* a session starts when no newer input has arrived.
QuietPeriodElapsed ==
    /\ orchState # "Off"
    /\ \E t \in timers :
         /\ timers' = timers \ {t}
         /\ IF orchState = "AwaitingQuietPeriod" /\ TimerCurrent(t, current_request_id)
            THEN /\ sessions' = [sessions EXCEPT ![current_request_id] =
                                   [NoSession EXCEPT !.status = "Running",
                                                     !.prompt = Compose(pending_prompt)]]
                 /\ active_session' = current_request_id
                 /\ orchState' = "Dispatched"
                 /\ dispatchLog' = Append(dispatchLog,
                        [rid |-> current_request_id, timer |-> t,
                         raw |-> pending_prompt, live |-> Live])
            ELSE UNCHANGED << sessions, active_session, orchState, dispatchLog >>
    /\ UNCHANGED << current_request_id, pending_prompt, channel, display >>
    /\ UNCHANGED cliVars

\* A running session drains one fragment of its stream and emits Chunk.
SessionChunk ==
    /\ \E r \in RequestIds :
         /\ sessions[r].status = "Running"
         /\ Len(sessions[r].produced) < MaxFragments
         /\ LET c == FragmentOf(r, Len(sessions[r].produced) + 1) IN
            /\ sessions' = [sessions EXCEPT ![r].produced = Append(@, c)]
            /\ channel' = [channel EXCEPT ![r] = Append(@, Event("Chunk", c))]
    /\ UNCHANGED << orchState, current_request_id, pending_prompt,
                    active_session, timers, display, dispatchLog >>
    /\ UNCHANGED cliVars

\* The stream is exhausted (Completed with the full text), fails (Failed),
\* or its teardown after cancel() is acknowledged (Cancelled).
SessionEnd ==
    /\ \E r \in RequestIds, kind \in {"Completed", "Failed", "Cancelled"} :
         /\ sessions[r].status = "Running"
         /\ kind = "Cancelled" => sessions[r].cancelRequested
         /\ sessions' = [sessions EXCEPT ![r].status = kind]
         /\ channel' = [channel EXCEPT ![r] = Append(@,
                Event(kind, IF kind = "Completed" THEN Concat(sessions[r].produced)
                            ELSE <<>>))]
    /\ UNCHANGED << orchState, current_request_id, pending_prompt,
                    active_session, timers, display, dispatchLog >>
    /\ UNCHANGED cliVars

\* Mutant: the request id of an event is not compared.
DiscardedCancelledOnly(ev, rid, cur) == ev.kind = "Cancelled"

\* Rules 3 and 7: an event of another request than the current one, and
\* every Cancelled event, is discarded.
Discarded(ev, rid, cur) == ev.kind = "Cancelled" \/ rid # cur

\* Rules 3 to 7: the control loop takes the next event of session r.
SessionEvent ==
    /\ orchState # "Off"
    /\ \E r \in RequestIds :
         /\ channel[r] # <<>>
         /\ channel' = [channel EXCEPT ![r] = Tail(@)]
         /\ LET ev == Head(channel[r]) IN
            IF Discarded(ev, r, current_request_id) \/ orchState # "Dispatched"
            THEN UNCHANGED << display, orchState, active_session, sessions >>
            ELSE /\ display' = Append(display,
                                      Update(r, current_request_id, ev.kind, ev.text))
                 /\ IF ev.kind = "Chunk"
                    THEN UNCHANGED << orchState, active_session, sessions >>
                    ELSE /\ orchState' = "Idle"
                         /\ active_session' = 0
                         /\ sessions' = [sessions EXCEPT ![r].reported = TRUE]
    /\ UNCHANGED << current_request_id, pending_prompt, timers, dispatchLog >>
    /\ UNCHANGED cliVars

NextOrch ==
    \/ InputChanged
    \/ QuietPeriodElapsed
    \/ SessionChunk
    \/ SessionEnd
    \/ SessionEvent

Init == InitCli \/ InitOrch

Next == NextCli \/ NextOrch

Spec == Init /\ [][Next]_vars

\* ------------------------------------------------------- derived quantities
\* The one-shot mode was selected: run_cli took the prompt.
OneShot == prompt # <<>>

\* A non-empty prompt is given on the command line, or, without positional
\* words, piped.
PositionalPrompt == Join(args.prompt) # <<>>
PipedPrompt == args.prompt = <<>> /\ ~stdin.tty /\ Strip(stdin.text) # <<>>

\* Neither --show-config nor --save-dir.
NoConfigCommand == ~args.show_config /\ args.save_dir = ""

InRange(ms) == MinDebounceMs <= ms /\ ms <= MaxDebounceMs

\* The lines printed on one descriptor, and the texts of the lines of one kind.
LinesOn(fd) == SelectSeq(out, LAMBDA l : l.fd = fd)
LinesOf(msg) == SelectSeq(out, LAMBDA l : l.msg = msg)

RECURSIVE Texts(_)
Texts(lines) == IF lines = <<>> THEN <<>> ELSE <<Head(lines).text>> \o Texts(Tail(lines))

RECURSIVE TextFragments(_)
\* The contents of the raw chunks that carry text, in the order received.
TextFragments(raws) ==
    IF raws = <<>> THEN <<>>
    ELSE (IF Head(raws).choices /\ Head(raws).content # <<>>
          THEN << Head(raws).content >> ELSE <<>>) \o TextFragments(Tail(raws))

\* The display updates of one kind made for session r, in order.
UpdatesOf(r, kind, upto) ==
    Texts(SelectSeq(SubSeq(display, 1, upto), LAMBDA u : u.rid = r /\ u.kind = kind))

IsPrefix(a, b) == Len(a) <= Len(b) /\ a = SubSeq(b, 1, Len(a))

\* ------------------------------------------------------------------ claims

\* C1: staleness discarding.  A session is dispatched only for the latest
\* input, on the expiry of that input's own quiet period and with that
\* input's text: an input superseded before its quiet period elapsed never
\* reaches Dispatched.  Every update of the display comes from the session
\* of the request id that is current when it is made, so the events of
\* superseded sessions never change the display, in whatever order they
\* arrive.
C1_StalenessDiscarding ==
    /\ \A i \in DOMAIN dispatchLog :
         /\ dispatchLog[i].rid = dispatchLog[i].timer
         /\ dispatchLog[i].raw = InputText(dispatchLog[i].rid)
         /\ \A j \in DOMAIN dispatchLog : j < i => dispatchLog[j].rid < dispatchLog[i].rid
    /\ \A r \in RequestIds :
         sessions[r].status # "None" =>
             /\ r <= current_request_id
             /\ sessions[r].prompt = Strip(InputText(r))
             /\ \E i \in DOMAIN dispatchLog : dispatchLog[i].rid = r
    /\ \A i \in DOMAIN display : display[i].rid = display[i].cur
    /\ \A r \in RequestIds :
         IsPrefix(UpdatesOf(r, "Chunk", Len(display)), sessions[r].produced)

\* C1 witness: the first session was superseded after it had produced all
\* its fragments; its events were all taken and none reached the display,
\* while the second session's chunk did.
C1_Witness ==
    /\ current_request_id = 2
    /\ sessions[1].status = "Completed"
    /\ Len(sessions[1].produced) = MaxFragments
    /\ channel[1] = <<>>
    /\ \A i \in DOMAIN display : display[i].rid = 2
    /\ display # <<>>

C3_ExitCodes ==
    /\ pc # "done" => exitStatus = -1
    /\ (pc = "done" /\ OneShot) =>
         /\ exitStatus \in {0, 1, 130}
         /\ cause = "ok" <=> exitStatus = 0
         /\ cause = "interrupt" <=> exitStatus = 130
         /\ cause \in {"baddir", "nokey", "provider", "uncaught"} <=> exitStatus = 1
         /\ cause = "nokey" => LinesOf("Error") = <<>> /\ LinesOf("Cancelled") = <<>>

\* C3 witness: a one-shot run that ended for the missing credential.
C3_Witness == pc = "done" /\ OneShot /\ cause = "nokey" /\ exitStatus = 1

\* C4: load_config and get_saved_directory never raise, whatever the state
\* of the configuration document: neither --show-config nor the directory
\* lookup of a one-shot run ends with an uncaught exception.
C4_ConfigReadsNeverFail ==
    /\ (pc = "done" /\ args.show_config) => cause # "uncaught"
    /\ (pc = "done" /\ OneShot /\ args.directory = "") => cause # "uncaught"

\* C5: the debounce interval that --debounce persists and the one it
\* reports to the user both lie in [100, 5000].
C5_DebounceClamped ==
    /\ configDoc.db # <<>> => InRange(configDoc.db[1])
    /\ reportedDebounce # <<>> => InRange(reportedDebounce[1])

\* C6: without --show-config and --save-dir, a run that ends otherwise than
\* by an uncaught exception has selected the one-shot mode and launched no
\* TUI whenever a prompt was given (positional or piped) without --tui, has
\* launched the TUI and run no enrichment whenever --tui was given, and has
\* scanned the directory of --directory whenever one was given.
C6_ModeSelection ==
    (pc = "done" /\ NoConfigCommand /\ cause # "uncaught") =>
        /\ (~args.tui /\ (PositionalPrompt \/ PipedPrompt)) =>
               OneShot /\ tuiLaunched = 0
        /\ args.tui => tuiLaunched = 1 /\ ~OneShot /\ scanned = <<>>
                       /\ completionRequests = 0
        /\ (scanned # <<>> /\ args.directory # "") => scanned = << args.directory >>

\* C7: a failure of the clipboard step after a successful enrichment leaves
\* the exit status 0 and the result as it was produced, and is reported at
\* most by a note on standard error, never by an error.
C7_ClipboardNonFatal ==
    (pc = "done" /\ clipOutcome = "failed") =>
        /\ exitStatus = 0
        /\ cause = "ok"
        /\ result = Concat(TextFragments(rawHistory))
        /\ LinesOf("Error") = <<>>
        /\ Len(LinesOf("Note")) = (IF args.quiet THEN 0 ELSE 1)
        /\ LinesOf("Copied") = <<>>
        /\ clipboard = <<>>

\* C7 witness: a one-shot run with a result whose clipboard step failed.
C7_Witness ==
    /\ pc = "done"
    /\ clipOutcome = "failed"
    /\ result # <<>>
    /\ ~args.quiet

\* C8: the fragments of the completion stream reach the output in the order
\* the stream produced them, none dropped, duplicated or reordered, and the
\* final text is their in-order concatenation.  One-shot: the yielded
\* fragments are the text-carrying raw chunks in order, the result is their
\* concatenation, without --quiet each was printed in order as it came and
\* with --quiet the one printed result is that concatenation.  Interactive:
\* the chunks displayed for a session are a prefix of what its stream
\* produced, and when its completion is published they are all of it and
\* the published text is their concatenation.
C8_ChunkOrder ==
    /\ yielded = TextFragments(rawHistory)
    /\ result = Concat(yielded)
    /\ ~args.quiet => Texts(LinesOf("Chunk")) = yielded
    /\ args.quiet => LinesOf("Chunk") = <<>>
    /\ (args.quiet /\ (pc = "clipboard" \/ clipOutcome # "")) =>
           Texts(LinesOf("Result")) = << Concat(TextFragments(rawHistory)) >>
    /\ \A r \in RequestIds :
         IsPrefix(UpdatesOf(r, "Chunk", Len(display)), sessions[r].produced)
    /\ \A i \in DOMAIN display :
         display[i].kind = "Completed" =>
             /\ UpdatesOf(display[i].rid, "Chunk", i) = sessions[display[i].rid].produced
             /\ display[i].text = Concat(sessions[display[i].rid].produced)

\* C8 witness: a one-shot run that got "a" then "b" and returned "ab".
C8_Witness ==
    /\ pc = "done"
    /\ cause = "ok"
    /\ yielded = << <<"a">>, <<"b">> >>
    /\ result = <<"a", "b">>
    /\ Texts(LinesOf("Chunk")) = << <<"a">>, <<"b">> >>

\* C9 as stated: with --debounce, a prompt (positional or piped) and no
\* --tui, the run scans nothing, requests no completion and launches no TUI.
C9_AsStated ==
    (NoConfigCommand /\ args.debounce # <<>> /\ ~args.tui
        /\ (PositionalPrompt \/ PipedPrompt)) =>
        /\ scanned = <<>>
        /\ completionRequests = 0
        /\ tuiLaunched = 0

\* C9, amended: with --debounce, no --tui and no positional prompt (a piped
\* prompt or none), run_cli ends right after set_debounce_ms: it scans
\* nothing, requests no completion and launches no TUI, and when it
\* returns the value is saved.  With a non-empty positional prompt it goes
\* on, after saving, to the one-shot enrichment of that prompt.
C9_DebounceExit ==
    /\ (NoConfigCommand /\ args.debounce # <<>> /\ ~args.tui /\ args.prompt = <<>>) =>
         /\ pc \in {"start", "done"}
         /\ ~OneShot
         /\ scanned = <<>>
         /\ completionRequests = 0
         /\ tuiLaunched = 0
         /\ (pc = "done" /\ cause # "uncaught") =>
                /\ exitStatus = 0
                /\ configDoc.db = << ClampDebounce(args.debounce[1]) >>
    /\ (NoConfigCommand /\ args.debounce # <<>> /\ ~args.tui /\ PositionalPrompt
          /\ pc = "done" /\ cause # "uncaught") =>
         /\ OneShot
         /\ prompt = Join(args.prompt)
         /\ configDoc.db = << ClampDebounce(args.debounce[1]) >>

\* C9 witness: --debounce with a piped prompt only; the run has returned.
C9_Witness ==
    /\ pc = "done"
    /\ NoConfigCommand
    /\ args.debounce # <<>>
    /\ ~args.tui
    /\ PipedPrompt
    /\ cause = "config"

\* C10: a one-shot run with --quiet never hands the result to the
\* clipboard, and the one thing it prints on standard output is the final
\* result, once, after the stream is exhausted.
C10_QuietNoClipboard ==
    (OneShot /\ args.quiet) =>
        /\ clipOutcome = ""
        /\ clipboard = <<>>
        /\ (pc = "done" /\ cause = "ok") =>
               SelectSeq(LinesOn("stdout"), LAMBDA l : l.msg # "DebounceSet")
                   = << Line("stdout", "Result", result) >>

====
